---- MODULE Spec2Model ----
(***************************************************************************)
(* Cart service of the QKart backend (src/src/services/cart.service.js).   *)
(*                                                                         *)
(* The persisted state is the carts collection and the user's wallet.      *)
(* Every request is served by an async function; each `await` in the       *)
(* source is a point where another request may run, so each action below   *)
(* is the code between two awaits.                                         *)
(*                                                                         *)
(* Mongoose documents are saved by delta: cart.save() sends only the paths *)
(* the handler modified.  An Array push is sent as $push and increments    *)
(* the document version __v; a write to cartItems[i].quantity is sent as   *)
(* a positional $set guarded by the loaded __v; a splice or an assignment  *)
(* of the whole array is sent as $set of the array, guarded by the loaded  *)
(* __v and incrementing it.  A guarded save whose __v no longer matches    *)
(* rejects with VersionError.  user.save() sends $set walletMoney.         *)
(***************************************************************************)
EXTENDS Integers, Sequences, FiniteSets, TLC

\* ---------------------------------------------------------------- bounds
MaxQty == 2
MaxWallet == 3
MaxRequests == 3

\* ---------------------------------------------------------------- inputs
Procs == {"r1", "r2"}
Products == {"p1", "p2"}
ProductIds == Products \cup {"px"}
Quantities == 1..MaxQty
Cost == [id \in Products |-> IF id = "p1" THEN 1 ELSE 2]
Ops == {"getCartByUser", "addProductToCart", "updateProductInCart",
        "deleteProductFromCart", "checkout"}

VARIABLES
  carts,        \* the carts collection of the one user: documents [cartItems, v]
  walletMoney,  \* the user's persisted wallet balance
  addressSet,   \* whether the user's address differs from the default one
  created,      \* history: some addProductToCart call passed Cart.create
  overlap,      \* whether requests are served while another is in flight
  nreq,         \* number of requests received
  pc,           \* position of each request in its handler
  req,          \* [op, productId, quantity] of each request
  user,         \* walletMoney of the user document each request holds
  cart,         \* the cart document each request holds
  productIndex, \* result of the scan of each request
  total,        \* total computed by a checkout
  counted,      \* history: the items a checkout summed into total
  result,       \* outcome of each request
  pre           \* history: persisted state when a request served alone arrived

vars == <<carts, walletMoney, addressSet, created, overlap, nreq, pc, req,
          user, cart, productIndex, total, counted, result, pre>>

\* ------------------------------------------------------- values and helpers
NoCart == [id |-> 0, cartItems |-> <<>>, v |-> 0]
NoReq == [op |-> "none", productId |-> "none", quantity |-> 0]
NoResult == [status |-> 0, message |-> ""]
NoPre == [carts |-> <<>>, walletMoney |-> 0]

Ok == [status |-> 200, message |-> "OK"]
ApiError(status, message) == [status |-> status, message |-> message]
VersionError == [status |-> 500, message |-> "VersionError"]

\* Cart.findOne({email: user.email}): the first matching document, or null
FindOne(cs) ==
  IF cs = <<>> THEN NoCart
  ELSE [id |-> 1, cartItems |-> cs[1].cartItems, v |-> cs[1].v]

\* the unique index on the cart's email rejects a second cart for the user
EmailTaken_noindex(cs) == FALSE
EmailTaken(cs) == cs # <<>>

\* if(!cart) of addProductToCart
MustCreate(c) == c = NoCart

\* the scan loop: the last index whose product id equals productId, else -1
RECURSIVE ScanFrom(_, _, _, _)
ScanFrom(items, productId, i, found) ==
  IF i > Len(items) THEN found
  ELSE ScanFrom(items, productId, i + 1,
                IF items[i].product = productId THEN i ELSE found)

Scan_blind(items, productId) == -1
Scan(items, productId) == ScanFrom(items, productId, 1, -1)

\* Product.findOne({_id: productId}) == null
ProductMissing(productId) == productId \notin Products

\* cartItems.push({product, quantity})
Push(items, productId, quantity) ==
  Append(items, [product |-> productId, quantity |-> quantity])

\* cartItems[productIndex].quantity = quantity
SetQuantity(items, i, quantity) ==
  [items EXCEPT ![i].quantity = quantity]

\* an assignment of the value a path already holds does not mark the path
\* modified, and save() of an unmodified document sends nothing
Unmodified(items, i, quantity) == items[i].quantity = quantity

\* cartItems.splice(productIndex, 1)
Splice_tail(items, i) == SubSeq(items, 1, i - 1)
Splice(items, i) == SubSeq(items, 1, i - 1) \o SubSeq(items, i + 1, Len(items))

\* the total loop of checkout: sum of product.cost * quantity
RECURSIVE TotalFrom(_, _, _)
TotalFrom(items, i, acc) ==
  IF i > Len(items) THEN acc
  ELSE TotalFrom(items, i + 1, acc + Cost[items[i].product] * items[i].quantity)

Total_unit(items) ==
  TotalFrom([j \in 1..Len(items) |-> [items[j] EXCEPT !.quantity = 1]], 1, 0)
Total(items) == TotalFrom(items, 1, 0)

\* if(total > user.walletMoney)
Insufficient_never(t, money) == FALSE
Insufficient(t, money) == t > money

\* if(cart.cartItems.length === 0)
CartIsEmpty_never(c) == FALSE
CartIsEmpty(c) == Len(c.cartItems) = 0

\* cart.cartItems = [] of checkout
Cleared_keep(items) == items
Cleared(items) == <<>>

\* if(cart == null) of getCartByUser
NotFound_never(c) == FALSE
NotFound(c) == c = NoCart

\* ------------------------------------------------------------ cart.save()
\* $push of one item: unguarded, increments __v
SavePush(cs, c, item) ==
  [cs EXCEPT ![c.id] = [cartItems |-> Append(@.cartItems, item), v |-> @.v + 1]]

\* the __v guard of a positional $set or a $set of the whole array
VersionConflict(cs, c) == cs[c.id].v # c.v

\* positional $set of cartItems.<i>.quantity: guarded, __v kept
SaveSetAt(cs, c, i, quantity) ==
  [cs EXCEPT ![c.id].cartItems = SetQuantity(@, i, quantity)]

\* $set of the whole cartItems array: guarded, increments __v
SaveSetArray(cs, c) ==
  [cs EXCEPT ![c.id] = [cartItems |-> c.cartItems, v |-> @.v + 1]]

\* ------------------------------------------------------------------- Init
Init ==
  /\ carts = <<>>
  /\ walletMoney \in 0..MaxWallet
  /\ addressSet \in BOOLEAN
  /\ created = FALSE
  /\ overlap = TRUE
  /\ nreq = 0
  /\ pc = [p \in Procs |-> "idle"]
  /\ req = [p \in Procs |-> NoReq]
  /\ user = [p \in Procs |-> 0]
  /\ cart = [p \in Procs |-> NoCart]
  /\ productIndex = [p \in Procs |-> -1]
  /\ total = [p \in Procs |-> 0]
  /\ counted = [p \in Procs |-> <<>>]
  /\ result = [p \in Procs |-> NoResult]
  /\ pre = [p \in Procs |-> NoPre]

\* the same server receiving one request at a time
InitSeq ==
  /\ carts = <<>>
  /\ walletMoney \in 0..MaxWallet
  /\ addressSet \in BOOLEAN
  /\ created = FALSE
  /\ overlap = FALSE
  /\ nreq = 0
  /\ pc = [p \in Procs |-> "idle"]
  /\ req = [p \in Procs |-> NoReq]
  /\ user = [p \in Procs |-> 0]
  /\ cart = [p \in Procs |-> NoCart]
  /\ productIndex = [p \in Procs |-> -1]
  /\ total = [p \in Procs |-> 0]
  /\ counted = [p \in Procs |-> <<>>]
  /\ result = [p \in Procs |-> NoResult]
  /\ pre = [p \in Procs |-> NoPre]

\* ------------------------------------------------------------ bookkeeping
Finish(p, r) ==
  /\ pc' = [pc EXCEPT ![p] = "done"]
  /\ result' = [result EXCEPT ![p] = r]

Goto(p, label) ==
  /\ pc' = [pc EXCEPT ![p] = label]
  /\ UNCHANGED result

Requests ==
  {[op |-> "getCartByUser", productId |-> "none", quantity |-> 0],
   [op |-> "checkout", productId |-> "none", quantity |-> 0]}
  \cup {[op |-> "deleteProductFromCart", productId |-> id, quantity |-> 0] :
          id \in ProductIds}
  \cup {[op |-> o, productId |-> id, quantity |-> q] :
          o \in {"addProductToCart", "updateProductInCart"},
          id \in ProductIds, q \in Quantities}

\* a request arrives; the caller has loaded the user document
Request(p) ==
  /\ pc[p] = "idle"
  /\ nreq < MaxRequests
  /\ \A q \in Procs : pc[q] # "crashed"
  /\ overlap \/ \A q \in Procs : pc[q] = "idle"
  /\ \E r \in Requests : req' = [req EXCEPT ![p] = r]
  /\ nreq' = nreq + 1
  /\ user' = [user EXCEPT ![p] = walletMoney]
  /\ pre' = [pre EXCEPT ![p] = IF overlap THEN NoPre
                                ELSE [carts |-> carts, walletMoney |-> walletMoney]]
  /\ pc' = [pc EXCEPT ![p] = "called"]
  /\ UNCHANGED <<carts, walletMoney, addressSet, created, overlap, cart,
                 productIndex, total, counted, result>>

\* the response is sent and the request's documents are dropped
Respond(p) ==
  /\ pc[p] = "done"
  /\ pc' = [pc EXCEPT ![p] = "idle"]
  /\ req' = [req EXCEPT ![p] = NoReq]
  /\ user' = [user EXCEPT ![p] = 0]
  /\ cart' = [cart EXCEPT ![p] = NoCart]
  /\ productIndex' = [productIndex EXCEPT ![p] = -1]
  /\ total' = [total EXCEPT ![p] = 0]
  /\ counted' = [counted EXCEPT ![p] = <<>>]
  /\ result' = [result EXCEPT ![p] = NoResult]
  /\ pre' = [pre EXCEPT ![p] = NoPre]
  /\ UNCHANGED <<carts, walletMoney, addressSet, created, overlap, nreq>>

\* ---------------------------------------------------------- getCartByUser
GetCartByUser(p) ==
  /\ pc[p] = "called" /\ req[p].op = "getCartByUser"
  /\ cart' = [cart EXCEPT ![p] = FindOne(carts)]
  /\ IF NotFound(FindOne(carts))
     THEN Finish(p, ApiError(404, "User does not have a cart"))
     ELSE Finish(p, Ok)
  /\ UNCHANGED <<carts, walletMoney, addressSet, created, overlap, nreq, req,
                 user, productIndex, total, counted, pre>>

\* ------------------------------------------------------- addProductToCart
\* the scan and the branch on its result, after the cart is in hand
AddScan(p, c) ==
  /\ productIndex' = [productIndex EXCEPT ![p] = Scan(c.cartItems, req[p].productId)]
  /\ IF Scan(c.cartItems, req[p].productId) = -1
     THEN Goto(p, "addFindProduct")
     ELSE Finish(p, ApiError(400, "Product already in cart"))

AddFindCart(p) ==
  /\ pc[p] = "called" /\ req[p].op = "addProductToCart"
  /\ cart' = [cart EXCEPT ![p] = FindOne(carts)]
  /\ IF MustCreate(FindOne(carts))
     THEN Goto(p, "addCreate") /\ UNCHANGED productIndex
     ELSE AddScan(p, FindOne(carts))
  /\ UNCHANGED <<carts, walletMoney, addressSet, created, overlap, nreq, req,
                 user, total, counted, pre>>

AddCreateCart(p) ==
  /\ pc[p] = "addCreate"
  /\ IF EmailTaken(carts)
     THEN /\ Finish(p, ApiError(500, "User cart creation failed"))
          /\ UNCHANGED <<carts, created, cart, productIndex>>
     ELSE /\ carts' = Append(carts, [cartItems |-> <<>>, v |-> 0])
          /\ created' = TRUE
          /\ cart' = [cart EXCEPT ![p] =
                        [id |-> Len(carts) + 1, cartItems |-> <<>>, v |-> 0]]
          /\ AddScan(p, [id |-> Len(carts) + 1, cartItems |-> <<>>, v |-> 0])
  /\ UNCHANGED <<walletMoney, addressSet, overlap, nreq, req, user, total,
                 counted, pre>>

AddFindProduct(p) ==
  /\ pc[p] = "addFindProduct"
  /\ IF ProductMissing(req[p].productId)
     THEN /\ Finish(p, ApiError(400, "Product doesn't exist in database"))
          /\ UNCHANGED cart
     ELSE /\ cart' = [cart EXCEPT ![p].cartItems =
                        Push(@, req[p].productId, req[p].quantity)]
          /\ Goto(p, "addSave")
  /\ UNCHANGED <<carts, walletMoney, addressSet, created, overlap, nreq, req,
                 user, productIndex, total, counted, pre>>

AddSave(p) ==
  /\ pc[p] = "addSave"
  /\ carts' = SavePush(carts, cart[p],
                        [product |-> req[p].productId, quantity |-> req[p].quantity])
  /\ cart' = [cart EXCEPT ![p].v = @ + 1]
  /\ Finish(p, Ok)
  /\ UNCHANGED <<walletMoney, addressSet, created, overlap, nreq, req, user,
                 productIndex, total, counted, pre>>

\* ---------------------------------------------------- updateProductInCart
UpdFindCart(p) ==
  /\ pc[p] = "called" /\ req[p].op = "updateProductInCart"
  /\ cart' = [cart EXCEPT ![p] = FindOne(carts)]
  /\ IF FindOne(carts) = NoCart
     THEN Finish(p, ApiError(400, "User does not have a cart. Use POST to create cart and add a product"))
     ELSE Goto(p, "updFindProduct")
  /\ UNCHANGED <<carts, walletMoney, addressSet, created, overlap, nreq, req,
                 user, productIndex, total, counted, pre>>

UpdFindProduct(p) ==
  /\ pc[p] = "updFindProduct"
  /\ IF ProductMissing(req[p].productId)
     THEN /\ Finish(p, ApiError(400, "Product doesn't exist in database"))
          /\ UNCHANGED <<cart, productIndex>>
     ELSE /\ productIndex' = [productIndex EXCEPT ![p] =
                                Scan(cart[p].cartItems, req[p].productId)]
          /\ IF Scan(cart[p].cartItems, req[p].productId) = -1
             THEN /\ Finish(p, ApiError(400, "Product not in cart"))
                  /\ UNCHANGED cart
             ELSE /\ cart' = [cart EXCEPT ![p].cartItems =
                                SetQuantity(@, Scan(@, req[p].productId),
                                            req[p].quantity)]
                  /\ IF Unmodified(cart[p].cartItems,
                                   Scan(cart[p].cartItems, req[p].productId),
                                   req[p].quantity)
                     THEN Goto(p, "updSaveNothing")
                     ELSE Goto(p, "updSave")
  /\ UNCHANGED <<carts, walletMoney, addressSet, created, overlap, nreq, req,
                 user, total, counted, pre>>

\* cart.save() of updateProductInCart
UpdSave(p) ==
  /\ pc[p] \in {"updSave", "updSaveNothing"}
  /\ IF pc[p] = "updSaveNothing"
     THEN Finish(p, Ok) /\ UNCHANGED carts
     ELSE IF VersionConflict(carts, cart[p])
     THEN Finish(p, VersionError) /\ UNCHANGED carts
     ELSE /\ carts' = SaveSetAt(carts, cart[p], productIndex[p], req[p].quantity)
          /\ Finish(p, Ok)
  /\ UNCHANGED <<walletMoney, addressSet, created, overlap, nreq, req, user,
                 cart, productIndex, total, counted, pre>>

\* -------------------------------------------------- deleteProductFromCart
DelFindCart(p) ==
  /\ pc[p] = "called" /\ req[p].op = "deleteProductFromCart"
  /\ IF FindOne(carts) = NoCart
     THEN /\ Finish(p, ApiError(400, "User does not have a cart"))
          /\ cart' = [cart EXCEPT ![p] = FindOne(carts)]
          /\ UNCHANGED productIndex
     ELSE /\ productIndex' = [productIndex EXCEPT ![p] =
                                Scan(FindOne(carts).cartItems, req[p].productId)]
          /\ IF Scan(FindOne(carts).cartItems, req[p].productId) = -1
             THEN /\ Finish(p, ApiError(400, "Product not in cart"))
                  /\ cart' = [cart EXCEPT ![p] = FindOne(carts)]
             ELSE /\ cart' = [cart EXCEPT ![p] =
                       [FindOne(carts) EXCEPT !.cartItems =
                          Splice(@, Scan(@, req[p].productId))]]
                  /\ Goto(p, "delSave")
  /\ UNCHANGED <<carts, walletMoney, addressSet, created, overlap, nreq, req,
                 user, total, counted, pre>>

DelSave(p) ==
  /\ pc[p] = "delSave"
  /\ IF VersionConflict(carts, cart[p])
     THEN Finish(p, VersionError) /\ UNCHANGED <<carts, cart>>
     ELSE /\ carts' = SaveSetArray(carts, cart[p])
          /\ cart' = [cart EXCEPT ![p].v = @ + 1]
          /\ Finish(p, Ok)
  /\ UNCHANGED <<walletMoney, addressSet, created, overlap, nreq, req, user,
                 productIndex, total, counted, pre>>

\* --------------------------------------------------------------- checkout
CkFindCart(p) ==
  /\ pc[p] = "called" /\ req[p].op = "checkout"
  /\ cart' = [cart EXCEPT ![p] = FindOne(carts)]
  /\ IF FindOne(carts) = NoCart
     THEN Finish(p, ApiError(404, "User does not have a cart"))
     ELSE IF CartIsEmpty(FindOne(carts))
          THEN Finish(p, ApiError(400, "Cart is empty"))
          ELSE Goto(p, "ckAddress")
  /\ UNCHANGED <<carts, walletMoney, addressSet, created, overlap, nreq, req,
                 user, productIndex, total, counted, pre>>

\* user.hasSetNonDefaultAddress(), the total loop, the balance check and the
\* two assignments before the first save
CkAddress(p) ==
  /\ pc[p] = "ckAddress"
  /\ IF ~addressSet
     THEN /\ Finish(p, ApiError(400, "Address not set"))
          /\ UNCHANGED <<total, counted, user, cart>>
     ELSE /\ total' = [total EXCEPT ![p] = Total(cart[p].cartItems)]
          /\ counted' = [counted EXCEPT ![p] = cart[p].cartItems]
          /\ IF Insufficient(Total(cart[p].cartItems), user[p])
             THEN /\ Finish(p, ApiError(400, "User has insufficient money to process"))
                  /\ UNCHANGED <<user, cart>>
             ELSE /\ user' = [user EXCEPT ![p] = @ - Total(cart[p].cartItems)]
                  /\ cart' = [cart EXCEPT ![p].cartItems = Cleared(@)]
                  /\ Goto(p, "ckSaveUser")
  /\ UNCHANGED <<carts, walletMoney, addressSet, created, overlap, nreq, req,
                 productIndex, pre>>

\* await user.save()
CkSaveUser(p) ==
  /\ pc[p] = "ckSaveUser"
  /\ walletMoney' = user[p]
  /\ Goto(p, "ckSaveCart")
  /\ UNCHANGED <<carts, addressSet, created, overlap, nreq, req, user, cart,
                 productIndex, total, counted, pre>>

\* await cart.save()
CkSaveCart(p) ==
  /\ pc[p] = "ckSaveCart"
  /\ IF VersionConflict(carts, cart[p])
     THEN Finish(p, VersionError) /\ UNCHANGED <<carts, cart>>
     ELSE /\ carts' = SaveSetArray(carts, cart[p])
          /\ cart' = [cart EXCEPT ![p].v = @ + 1]
          /\ Finish(p, Ok)
  /\ UNCHANGED <<walletMoney, addressSet, created, overlap, nreq, req, user,
                 productIndex, total, counted, pre>>

\* the server process stops between the two saves of a checkout; every
\* request in flight is lost
Crash(p) ==
  /\ pc[p] = "ckSaveCart"
  /\ pc' = [q \in Procs |-> IF q = p THEN "crashed" ELSE "idle"]
  /\ req' = [q \in Procs |-> IF q = p THEN req[q] ELSE NoReq]
  /\ user' = [q \in Procs |-> IF q = p THEN user[q] ELSE 0]
  /\ cart' = [q \in Procs |-> IF q = p THEN cart[q] ELSE NoCart]
  /\ productIndex' = [q \in Procs |-> IF q = p THEN productIndex[q] ELSE -1]
  /\ total' = [q \in Procs |-> IF q = p THEN total[q] ELSE 0]
  /\ counted' = [q \in Procs |-> IF q = p THEN counted[q] ELSE <<>>]
  /\ result' = [q \in Procs |-> NoResult]
  /\ pre' = [q \in Procs |-> IF q = p THEN pre[q] ELSE NoPre]
  /\ UNCHANGED <<carts, walletMoney, addressSet, created, overlap, nreq>>

\* the server is started again
Restart(p) ==
  /\ pc[p] = "crashed"
  /\ pc' = [pc EXCEPT ![p] = "idle"]
  /\ req' = [req EXCEPT ![p] = NoReq]
  /\ user' = [user EXCEPT ![p] = 0]
  /\ cart' = [cart EXCEPT ![p] = NoCart]
  /\ productIndex' = [productIndex EXCEPT ![p] = -1]
  /\ total' = [total EXCEPT ![p] = 0]
  /\ counted' = [counted EXCEPT ![p] = <<>>]
  /\ pre' = [pre EXCEPT ![p] = NoPre]
  /\ UNCHANGED <<carts, walletMoney, addressSet, created, overlap, nreq, result>>

\* ------------------------------------------------------------------- Next
Next ==
  \E p \in Procs :
    \/ Request(p)
    \/ Respond(p)
    \/ GetCartByUser(p)
    \/ AddFindCart(p)
    \/ AddCreateCart(p)
    \/ AddFindProduct(p)
    \/ AddSave(p)
    \/ UpdFindCart(p)
    \/ UpdFindProduct(p)
    \/ UpdSave(p)
    \/ DelFindCart(p)
    \/ DelSave(p)
    \/ CkFindCart(p)
    \/ CkAddress(p)
    \/ CkSaveUser(p)
    \/ CkSaveCart(p)
    \/ Crash(p)
    \/ Restart(p)

Spec == Init /\ [][Next]_vars
SeqSpec == InitSeq /\ [][Next]_vars

\* ============================================================ properties
\* the persisted cart items of the user (none when there is no cart)
Items == IF carts = <<>> THEN <<>> ELSE carts[1].cartItems
PreHasCart(p) == pre[p].carts # <<>>
PreItems(p) == IF pre[p].carts = <<>> THEN <<>> ELSE pre[p].carts[1].cartItems

\* sum over the items of product cost x quantity
RECURSIVE SumCost(_)
SumCost(items) ==
  IF items = <<>> THEN 0
  ELSE Cost[Head(items).product] * Head(items).quantity + SumCost(Tail(items))

InCart(items, productId) == \E i \in 1..Len(items) : items[i].product = productId
Done(p, op) == pc[p] = "done" /\ req[p].op = op

\* C1: a checkout served alone succeeds only if the cart existed with at
\* least one item, the address was set and the sum of cost x quantity did not
\* exceed the wallet; afterwards the wallet is the old balance minus exactly
\* that sum and the cart is there with no items.
C1_CheckoutContract ==
  \A p \in Procs :
    (Done(p, "checkout") /\ result[p].status = 200) =>
      /\ PreHasCart(p)
      /\ Len(PreItems(p)) >= 1
      /\ addressSet
      /\ SumCost(PreItems(p)) <= pre[p].walletMoney
      /\ walletMoney = pre[p].walletMoney - SumCost(PreItems(p))
      /\ carts # <<>>
      /\ Items = <<>>

C1_Witness ==
  \E p \in Procs :
    /\ Done(p, "checkout") /\ result[p].status = 200
    /\ Len(PreItems(p)) = 2
    /\ walletMoney = 0

\* C2: the persisted wallet balance is never negative, whatever requests
\* overlap, overlapping checkouts of the same user included.
C2_WalletNonNegative == walletMoney >= 0

C2_Witness ==
  \E p, q \in Procs :
    /\ p # q
    /\ Done(p, "checkout") /\ result[p].status = 200
    /\ req[q].op = "checkout" /\ pc[q] = "ckSaveCart"
    /\ total[p] > 0 /\ total[q] > 0

\* C3: no product id occurs twice in the item list of a cart.
C3_NoDuplicateProducts ==
  \A c \in 1..Len(carts) :
    \A i, j \in 1..Len(carts[c].cartItems) :
      i # j => carts[c].cartItems[i].product # carts[c].cartItems[j].product

\* C4: there is at most one cart for the user's email, also when two
\* addProductToCart calls both find no cart and both go on to create one.
C4_AtMostOneCart == Len(carts) <= 1

C4_Witness ==
  \E p, q \in Procs :
    /\ p # q
    /\ req[p].op = "addProductToCart" /\ req[q].op = "addProductToCart"
    /\ pc[p] = "done" /\ result[p].status = 500
    /\ cart[p] = NoCart
    /\ Len(carts) = 1

\* C5: the cart exists exactly from the moment an addProductToCart call has
\* passed Cart.create; getCartByUser answers 404 "User does not have a cart"
\* exactly before that moment and returns the cart after it; no step other
\* than that creation adds or removes a cart, and the save of a successful
\* checkout leaves the cart in place with no items.
C5_GetStep(p) ==
  (pc[p] = "called" /\ req[p].op = "getCartByUser" /\ pc'[p] = "done") =>
    /\ ~created => result'[p] = ApiError(404, "User does not have a cart")
    /\ created => (result'[p].status = 200 /\ cart'[p].id = 1
                   /\ cart'[p].cartItems = carts[1].cartItems)

C5_OnlyCreateAdds ==
  Len(carts') # Len(carts) =>
    /\ Len(carts') = Len(carts) + 1
    /\ \E p \in Procs : pc[p] = "addCreate" /\ pc'[p] # "addCreate"
                        /\ req[p].op = "addProductToCart"

C5_CheckoutKeepsCart(p) ==
  (pc[p] = "ckSaveCart" /\ pc'[p] = "done" /\ result'[p].status = 200) =>
    (carts' # <<>> /\ carts'[1].cartItems = <<>>)

C5_LazyCart ==
  /\ [](created <=> carts # <<>>)
  /\ [][/\ C5_OnlyCreateAdds
        /\ created => created'
        /\ \A p \in Procs : C5_GetStep(p) /\ C5_CheckoutKeepsCart(p)]_vars

C5_Witness ==
  \E p, q \in Procs :
    /\ Done(p, "getCartByUser") /\ result[p].status = 200
    /\ Done(q, "addProductToCart") /\ result[q].status = 400
    /\ Items = <<>>

\* C6: a checkout served alone that fails leaves wallet and cart as they
\* were, and its error is the first that applies of: no cart 404, no items
\* 400 "Cart is empty", address not set 400, total above the wallet 400.
C6_Expected(p) ==
  IF ~PreHasCart(p) THEN ApiError(404, "User does not have a cart")
  ELSE IF Len(PreItems(p)) = 0 THEN ApiError(400, "Cart is empty")
  ELSE IF ~addressSet THEN ApiError(400, "Address not set")
  ELSE IF SumCost(PreItems(p)) > pre[p].walletMoney
       THEN ApiError(400, "User has insufficient money to process")
  ELSE Ok

C6_CheckoutErrors ==
  \A p \in Procs :
    Done(p, "checkout") =>
      /\ result[p] = C6_Expected(p)
      /\ result[p].status # 200 =>
           (carts = pre[p].carts /\ walletMoney = pre[p].walletMoney)

C6_Witness ==
  \E p \in Procs :
    /\ Done(p, "checkout")
    /\ result[p] = ApiError(400, "User has insufficient money to process")
    /\ walletMoney > 0

\* C7: addProductToCart served alone: a product already in the cart gives
\* 400 and the items stay as they were; a product neither in the cart nor in
\* the product collection gives 400 and nothing is appended; otherwise
\* exactly the item (product, quantity) is appended after the old items.
C7_AddContract ==
  \A p \in Procs :
    Done(p, "addProductToCart") =>
      IF InCart(PreItems(p), req[p].productId)
      THEN result[p].status = 400 /\ Items = PreItems(p)
      ELSE IF req[p].productId \notin Products
      THEN result[p].status = 400 /\ Items = PreItems(p)
      ELSE /\ result[p].status = 200
           /\ Items = PreItems(p) \o
                <<[product |-> req[p].productId, quantity |-> req[p].quantity]>>

C7_Witness ==
  \E p \in Procs :
    /\ Done(p, "addProductToCart")
    /\ InCart(PreItems(p), req[p].productId)
    /\ \E i \in 1..Len(PreItems(p)) :
         /\ PreItems(p)[i].product = req[p].productId
         /\ PreItems(p)[i].quantity # req[p].quantity
    /\ result[p].status = 400

\* C8: when the server stops between the two saves of a checkout, the
\* wallet is debited by the cart total while the cart still holds all its
\* items; a checkout that runs to its end never leaves the cart non-empty.
C8_TwoSaves ==
  \A p \in Procs :
    /\ pc[p] = "crashed" =>
         /\ walletMoney = pre[p].walletMoney - SumCost(PreItems(p))
         /\ carts = pre[p].carts
         /\ Len(Items) >= 1
    /\ (Done(p, "checkout") /\ result[p].status = 200) => Len(Items) = 0

C8_Witness ==
  \E p \in Procs :
    /\ pc[p] = "crashed"
    /\ walletMoney < pre[p].walletMoney
    /\ Len(Items) >= 1

\* C9: updateProductInCart and deleteProductFromCart served alone: a
\* successful update changes the quantity of the item with that product and
\* nothing else, a successful delete removes that item and keeps the others
\* in order, the wallet is untouched; with no cart, or the product not in the
\* cart (for update also: not in the product collection) the call fails
\* with 400 and the cart is unchanged.
C9_Update(p) ==
  Done(p, "updateProductInCart") =>
    /\ walletMoney = pre[p].walletMoney
    /\ IF /\ PreHasCart(p)
          /\ req[p].productId \in Products
          /\ InCart(PreItems(p), req[p].productId)
       THEN /\ result[p].status = 200
            /\ Len(Items) = Len(PreItems(p))
            /\ \A i \in 1..Len(Items) :
                 /\ Items[i].product = PreItems(p)[i].product
                 /\ Items[i].quantity =
                      IF PreItems(p)[i].product = req[p].productId
                      THEN req[p].quantity ELSE PreItems(p)[i].quantity
       ELSE result[p].status = 400 /\ carts = pre[p].carts

C9_Delete(p) ==
  Done(p, "deleteProductFromCart") =>
    /\ walletMoney = pre[p].walletMoney
    /\ IF PreHasCart(p) /\ InCart(PreItems(p), req[p].productId)
       THEN /\ result[p].status = 200
            /\ Len(Items) = Len(PreItems(p)) - 1
            /\ LET Other(it) == it.product # req[p].productId
               IN Items = SelectSeq(PreItems(p), Other)
       ELSE result[p].status = 400 /\ carts = pre[p].carts

C9_FrameOfUpdateAndDelete == \A p \in Procs : C9_Update(p) /\ C9_Delete(p)

C9_Witness ==
  \E p \in Procs :
    /\ Done(p, "deleteProductFromCart") /\ result[p].status = 200
    /\ Len(PreItems(p)) = 2
    /\ PreItems(p)[1].product = req[p].productId
    /\ Len(Items) = 1

\* C10: the items a checkout removes from the persisted cart are the items
\* it summed into the debited total, each at the quantity it has when it is
\* removed.
C10_Removed(p) ==
  (pc[p] = "ckSaveCart" /\ pc'[p] = "done" /\ result'[p].status = 200) =>
    /\ Len(carts[cart[p].id].cartItems) <= Len(counted[p])
    /\ \A i \in 1..Len(carts[cart[p].id].cartItems) :
         carts[cart[p].id].cartItems[i] = counted[p][i]

C10_ClearedItemsWerePaid == [][\A p \in Procs : C10_Removed(p)]_vars

====
